---- MODULE Spec2Model ----
(***************************************************************************)
(* The ticket-analysis page: Home holds one result, TicketForm posts the   *)
(* text to a mode-determined endpoint and hands the response (or a         *)
(* synthetic error object) to onResult, TicketResult renders the held      *)
(* result in one of three branches and fetches the trace detail whenever   *)
(* the result's trace_id changes.                                          *)
(*                                                                         *)
(* JavaScript objects are functions from field names to values; an absent  *)
(* field is a name outside the DOMAIN (JSON null is treated like an absent *)
(* field: both are falsy and both are absorbed by ?.).  Strings typed into *)
(* the textarea are sequences of characters.                               *)
(***************************************************************************)
EXTENDS Integers, Sequences, FiniteSets, TLC

VARIABLES
  input,      \* TicketForm: useState('')             the text of the textarea
  loading,    \* TicketForm: useState(false)
  mode,       \* TicketForm: useState('good')
  posts,      \* axios.post calls in flight, each with the awaiting handler's closure
  nPost,      \* number of POST requests issued so far
  nResult,    \* number of onResult invocations so far
  result,     \* Home: useState(null)                 the held AnalysisResult
  trace,      \* TicketResult: useState(null)         the stored trace detail
  view,       \* what TicketResult last rendered (Null while it is not mounted)
  gets,       \* per trace id, the number of axios.get calls in flight
  getCount,   \* per trace id, the number of GET /api/trace/{id} issued so far
  script,     \* the slide-deck builder that runs ("none" on the page)
  pc,         \* slide-deck builder: where the script is
  pres,       \* slide-deck builder: the slides added, each with its elements so far
  writes,     \* slide-deck builder: number of pres.writeFile calls so far
  console     \* slide-deck builder: the outcomes logged

\* The state of a slide-deck builder; the page leaves it alone.
deckVars == <<script, pc, pres, writes, console>>

vars == <<input, loading, mode, posts, nPost, nResult, result, trace, view,
          gets, getCount, deckVars>>

-----------------------------------------------------------------------------
(* Bounds of the model *)

\* longest text typed into the textarea
MaxLen == 1
\* cap on the number of accepted submissions in one run
MaxSubmits == 3
\* longest validation_errors list in the renderer's input space
MaxErrs == 2

-----------------------------------------------------------------------------
(* Values *)

Null == <<>>

Modes == {"good", "bad", "compare"}

API_URL == "http://localhost:8000"

\* Characters of typed text; "a" stands for any non-whitespace character.
Chars == {" ", "a"}

IsWhitespace(c) == c = " "

SeqsUpTo(S, n) == UNION {[1..k -> S] : k \in 0..n}

\* Every text the user can type.
Typed == SeqsUpTo(Chars, MaxLen)

\* The four example inputs; each literal is one non-whitespace symbol here.
EXAMPLES ==
  << [title |-> "complaint",  input |-> <<"ex_complaint">>],
     [title |-> "inquiry",    input |-> <<"ex_inquiry">>],
     [title |-> "fault",      input |-> <<"ex_fault">>],
     [title |-> "suggestion", input |-> <<"ex_suggestion">>] >>

\* String.prototype.trim: strip leading, then trailing, whitespace.
RECURSIVE TrimStart(_)
TrimStart(s) ==
  IF s = <<>> THEN <<>>
  ELSE IF IsWhitespace(Head(s)) THEN TrimStart(Tail(s))
  ELSE s

RECURSIVE TrimEnd(_)
TrimEnd(s) ==
  IF s = <<>> THEN <<>>
  ELSE IF IsWhitespace(s[Len(s)]) THEN TrimEnd(SubSeq(s, 1, Len(s) - 1))
  ELSE s

\* A plausible slip: the text is tested untrimmed.
TrimIdentity(s) == s

Trim(s) == TrimEnd(TrimStart(s))

\* !input.trim()  -- the empty string is the only falsy string
InputBlank(s) == Trim(s) = <<>>

-----------------------------------------------------------------------------
(* JavaScript values as the renderer sees them *)

\* The value of an expression: undefined (or null), a value, or a thrown TypeError.
Undefined == [k |-> "undefined"]
Val(x) == [k |-> "value", v |-> x]
Throw == [k |-> "TypeError"]

\* o.f : reading a property of undefined throws; a missing property is undefined.
Prop(o, f) ==
  IF o.k = "value"
  THEN IF f \in DOMAIN o.v THEN Val(o.v[f]) ELSE Undefined
  ELSE Throw

\* o?.f : undefined short-circuits to undefined.
OptProp(o, f) == IF o.k = "undefined" THEN Undefined ELSE Prop(o, f)

\* Truthiness, by the type the data model gives the field.
TruthyObject(o) == o.k = "value"
TruthyString(o) == o.k = "value" /\ o.v # ""
TruthyBoolean(o) == o.k = "value" /\ o.v = TRUE

\* cond && element : the element when cond is truthy, nothing otherwise.
AndThen(truthy, cond, element) ==
  IF cond.k = "TypeError" THEN Throw
  ELSE IF truthy THEN element
  ELSE Undefined

\* list.map((x, i) => <li key={i}>{x}</li>)
MapLi(o) ==
  IF o.k = "value"
  THEN Val([i \in 1..Len(o.v) |-> [key |-> i - 1, text |-> o.v[i]]])
  ELSE Throw

\* JSON.stringify(x, null, 2): undefined stays undefined and renders nothing.
Stringify(o) == IF o.k = "value" THEN Val([json |-> o.v]) ELSE o

\* const { mode, ...data } = result
Rest(r) == [f \in DOMAIN r \ {"mode"} |-> r[f]]

-----------------------------------------------------------------------------
(* confidence: (data.result.confidence * 100).toFixed(0) + '%'             *)
(* A confidence is given in thousandths: 920 is the JSON number 0.92.      *)

\* The thousandths n with 100 * (n / 1000) exactly half-way between two integers
\* whose binary64 product fl(fl(n / 1000) * 100) falls below, resp. above, n / 10.
\* (0.575 * 100 is 57.49999999999999, 0.035 * 100 is 3.5000000000000004.)
ProductBelow == {145, 285, 565, 575}
ProductAbove == {35, 275, 545, 555}

\* c * 100 in binary64: n / 10 plus a rounding error of the given sign. The error
\* is far smaller than 1/10, so its sign matters at the half-way values only.
Times100(n) ==
  [tenths |-> n,
   err |-> IF n \in ProductBelow THEN -1 ELSE IF n \in ProductAbove THEN 1 ELSE 0]

\* A plausible slip: the percentage is truncated instead of rounded.
ToFixed0Truncating(x) == x.tenths \div 10

\* Number.prototype.toFixed(0): the integer nearest to x, the larger one of two
\* equally near.
ToFixed0(x) ==
  LET lo == x.tenths \div 10
      frac == x.tenths % 10
  IN  IF frac < 5 \/ (frac = 5 /\ x.err < 0) THEN lo ELSE lo + 1

Percent(o) ==
  IF o.k = "value"
  THEN Val([digits |-> ToFixed0(Times100(o.v)), suffix |-> "%"])
  ELSE IF o.k = "undefined" THEN Val([nan |-> TRUE, suffix |-> "%"])
  ELSE Throw

-----------------------------------------------------------------------------
(* TicketResult: the render function *)

CrashView == [branch |-> "crash"]

\* A plausible slip: the P2 test is left out, so P2 falls through to the default.
UrgencyClassWithoutP2(u) ==
  IF u.k = "TypeError" THEN Throw
  ELSE IF u.k = "value" /\ u.v = "P0" THEN Val("text-red-600")
  ELSE IF u.k = "value" /\ u.v = "P1" THEN Val("text-orange-600")
  ELSE Val("text-green-600")

\* The class chosen by the nested conditional on data.result.urgency.
UrgencyClass(u) ==
  IF u.k = "TypeError" THEN Throw
  ELSE IF u.k = "value" /\ u.v = "P0" THEN Val("text-red-600")
  ELSE IF u.k = "value" /\ u.v = "P1" THEN Val("text-orange-600")
  ELSE IF u.k = "value" /\ u.v = "P2" THEN Val("text-yellow-600")
  ELSE Val("text-green-600")

\* A plausible slip: the approach is dereferenced without optional chaining.
ApproachPanelUnguarded(data, approach, listField) ==
  LET a == Prop(Val(data), approach)
  IN  [pre |-> Stringify(Prop(a, "result")),
       list |-> AndThen(TruthyObject(Prop(a, listField)), Prop(a, listField),
                        MapLi(Prop(a, listField)))]

\* One panel of the compare branch: the JSON of approach?.result, and the list of
\* approach.problems / approach.benefits when approach?.<list> is truthy.
ApproachPanel(data, approach, listField) ==
  LET a == Prop(Val(data), approach)
      cond == OptProp(a, listField)
  IN  [pre |-> Stringify(OptProp(a, "result")),
       list |-> AndThen(TruthyObject(cond), cond, MapLi(Prop(a, listField)))]

CompareView(data) ==
  [branch |-> "compare",
   bad |-> ApproachPanel(data, "bad_approach", "problems"),
   good |-> ApproachPanel(data, "good_approach", "benefits")]

\* A plausible slip: the link and the action block are tested for presence only
\* (!== undefined), so that an empty string shows them.
SuccessViewTestingPresence(m, data) ==
  LET d == Val(data)
      res == Prop(d, "result")
      action == Prop(res, "suggested_action")
      tid == Prop(d, "trace_id")
  IN  [branch |-> "success",
       title |-> Val(IF m.k = "value" /\ m.v = "bad" THEN "unreliable" ELSE "analysis"),
       duration |-> Prop(d, "duration_ms"),
       category |-> Prop(res, "category"),
       urgencyClass |-> UrgencyClass(Prop(res, "urgency")),
       urgency |-> Prop(res, "urgency"),
       product |-> Prop(res, "product"),
       confidence |-> Percent(Prop(res, "confidence")),
       summary |-> Prop(res, "summary"),
       action |-> AndThen(TruthyObject(action), action, action),
       traceLink |-> AndThen(TruthyObject(tid), tid,
                       IF tid.k = "value"
                       THEN Val([text |-> tid.v,
                                 href |-> <<"https://cloud.langfuse.com/trace/", tid.v>>])
                       ELSE tid),
       rawJson |-> Stringify(res)]

SuccessView(m, data) ==
  LET d == Val(data)
      res == Prop(d, "result")
      action == Prop(res, "suggested_action")
      tid == Prop(d, "trace_id")
  IN  [branch |-> "success",
       title |-> Val(IF m.k = "value" /\ m.v = "bad" THEN "unreliable" ELSE "analysis"),
       duration |-> Prop(d, "duration_ms"),
       category |-> Prop(res, "category"),
       urgencyClass |-> UrgencyClass(Prop(res, "urgency")),
       urgency |-> Prop(res, "urgency"),
       product |-> Prop(res, "product"),
       confidence |-> Percent(Prop(res, "confidence")),
       summary |-> Prop(res, "summary"),
       action |-> AndThen(TruthyString(action), action, action),
       traceLink |-> AndThen(TruthyString(tid), tid,
                       IF tid.k = "value"
                       THEN Val([text |-> tid.v,
                                 href |-> <<"https://cloud.langfuse.com/trace/", tid.v>>])
                       ELSE tid),
       rawJson |-> Stringify(res)]

\* A plausible slip: the list is rendered without its last entry.
ErrorListDroppingLast(data) ==
  LET errs == Prop(Val(data), "validation_errors")
  IN  AndThen(TruthyObject(errs), errs,
              IF errs.k = "value" /\ Len(errs.v) > 0
              THEN MapLi(Val(SubSeq(errs.v, 1, Len(errs.v) - 1)))
              ELSE MapLi(errs))

\* data.validation_errors && <ul>{data.validation_errors.map(...)}</ul>
ErrorList(data) ==
  LET errs == Prop(Val(data), "validation_errors")
  IN  AndThen(TruthyObject(errs), errs, MapLi(errs))

FailureView(data) ==
  [branch |-> "failure",
   status |-> Prop(Val(data), "status"),
   error |-> Prop(Val(data), "error"),
   errors |-> ErrorList(data)]

\* A render throws when one of the expressions it evaluates throws.
Throws(v) ==
  \E f \in DOMAIN v \ {"branch", "bad", "good"} : v[f].k = "TypeError"

PanelThrows(p) == p.pre.k = "TypeError" \/ p.list.k = "TypeError"

Guarded(v) ==
  IF v.branch = "compare"
  THEN IF PanelThrows(v.bad) \/ PanelThrows(v.good) THEN CrashView ELSE v
  ELSE IF Throws(v) THEN CrashView ELSE v

\* A plausible slip: the success test comes before the compare test.
BranchSuccessFirst(r) ==
  LET m == Prop(Val(r), "mode")
      data == Rest(r)
  IN  IF TruthyBoolean(Prop(Val(data), "success")) /\ TruthyObject(Prop(Val(data), "result"))
      THEN "success"
      ELSE IF m.k = "value" /\ m.v = "compare" THEN "compare"
      ELSE "failure"

\* The branch taken for a non-null result, in the order the function tests it.
Branch(r) ==
  LET m == Prop(Val(r), "mode")
      data == Rest(r)
  IN  IF m.k = "value" /\ m.v = "compare" THEN "compare"
      ELSE IF TruthyBoolean(Prop(Val(data), "success")) /\ TruthyObject(Prop(Val(data), "result"))
      THEN "success"
      ELSE "failure"

\* TicketResult({ result }): null for a null result, otherwise the output of the
\* branch taken (CrashView when rendering it throws).
Render(r) ==
  IF r = Null THEN Null
  ELSE LET b == Branch(r)
       IN  Guarded(IF b = "compare" THEN CompareView(Rest(r))
                   ELSE IF b = "success" THEN SuccessView(Prop(Val(r), "mode"), Rest(r))
                   ELSE FailureView(Rest(r)))

-----------------------------------------------------------------------------
(* The backend, an external collaborator: what it may answer *)

TraceIds == {"A", "B"}

Ticket ==
  [category |-> "COMPLAINT", urgency |-> "P0", product |-> "SmartWatch X",
   confidence |-> 920, summary |-> "broken after two days"]

TicketWithAction ==
  [category |-> "INQUIRY", urgency |-> "P2", product |-> "App",
   confidence |-> 575, summary |-> "asks about battery",
   suggested_action |-> "reply with the manual"]

\* Response bodies of a 2xx answer. Any endpoint may answer with any of them; the
\* second one carries a mode field of the server's own.
ServerBodies ==
  { [success |-> TRUE, result |-> Ticket, duration_ms |-> 850, trace_id |-> "A"],
    [success |-> FALSE, status |-> "validation_failed", error |-> "missing field",
     validation_errors |-> <<"category required", "urgency invalid">>,
     mode |-> "good", trace_id |-> "B"],
    [bad_approach |-> [result |-> Ticket, problems |-> <<"no validation", "wrong enum">>],
     good_approach |-> [result |-> TicketWithAction, benefits |-> <<"validated">>]] }

\* error.message of a rejected axios.post: no response at all, or a non-2xx status.
ErrorMessages == {"Network Error", "Request failed with status code 500"}

\* res.data of GET /api/trace/{id}: opaque, but it belongs to the id asked for.
TraceDetail(tid) == [id |-> tid]

-----------------------------------------------------------------------------
(* TicketForm *)

\* A plausible slip: compare posts to the plain analysis endpoint.
EndpointCompareUnmapped(m) ==
  IF m = "bad" THEN "/api/ticket/analyze-bad" ELSE "/api/ticket/analyze"

\* let endpoint = ...; if (mode === 'bad') ...; if (mode === 'compare') ...
Endpoint(m) ==
  IF m = "compare" THEN "/api/ticket/compare"
  ELSE IF m = "bad" THEN "/api/ticket/analyze-bad"
  ELSE "/api/ticket/analyze"

\* A plausible slip: the button is also disabled while a trace fetch is in flight.
SubmitDisabledWhileFetching ==
  loading \/ InputBlank(input) \/ \E tid \in TraceIds : gets[tid] > 0

\* A plausible slip: the button is not disabled while a request is in flight.
SubmitDisabledIgnoringLoading == InputBlank(input)

\* disabled={loading || !input.trim()}
SubmitDisabled == loading \/ InputBlank(input)

\* A plausible slip: the spread comes last, so a mode field of the response wins.
SpreadServerWins(data, m) ==
  [f \in DOMAIN data \cup {"mode"} |-> IF f \in DOMAIN data THEN data[f] ELSE m]

\* A plausible slip: the result is tagged with the mode selected at completion.
SpreadCurrentMode(data, m) ==
  [f \in DOMAIN data \cup {"mode"} |-> IF f = "mode" THEN mode ELSE data[f]]

\* { ...response.data, mode }
Spread(data, m) ==
  [f \in DOMAIN data \cup {"mode"} |-> IF f = "mode" THEN m ELSE data[f]]

\* A plausible slip: the catch block drops the message.
ErrorResultWithoutMessage(msg, m) == [mode |-> m]

\* { error: error.message, mode }
ErrorResult(msg, m) == [error |-> msg, mode |-> m]

-----------------------------------------------------------------------------
(* TicketResult: the trace effect *)

\* result?.trace_id
TraceDep(r) == OptProp(IF r = Null THEN Undefined ELSE Val(r), "trace_id")

\* A plausible slip: the effect has no dependency array and runs on every render.
EffectRunsAlways(mounted, prev, new) == TRUE

\* useEffect(..., [result?.trace_id]) runs after the first render and after a
\* render in which the dependency differs from the previous render's.
EffectRuns(mounted, prev, new) == ~mounted \/ prev # new

\* The GETs the effect issues after a render: one when it runs and the id is truthy.
EffectGets(mounted, prev, new) ==
  IF EffectRuns(mounted, prev, new) /\ TruthyString(new) THEN {new.v} ELSE {}

\* axios.get(`${API_URL}/api/trace/${result.trace_id}`) for every id of `ids`
IssueGets(ids) ==
  /\ gets' = [t \in TraceIds |-> IF t \in ids THEN gets[t] + 1 ELSE gets[t]]
  /\ getCount' = [t \in TraceIds |-> IF t \in ids THEN getCount[t] + 1 ELSE getCount[t]]

-----------------------------------------------------------------------------
(* Home *)

\* A plausible slip: the effect sits in the success branch, next to the trace link.
onResultFetchingInSuccessBranch(r) ==
  /\ result' = r
  /\ nResult' = nResult + 1
  /\ view' = Render(r)
  /\ IssueGets(IF Branch(r) = "success"
               THEN EffectGets(result # Null, TraceDep(result), TraceDep(r))
               ELSE {})

\* A plausible slip: the new result is merged into the held one,
\* setResult(prev => ({ ...prev, ...r })).
onResultMerging(r) ==
  LET merged == [f \in DOMAIN result \cup DOMAIN r |->
                   IF f \in DOMAIN r THEN r[f] ELSE result[f]]
  IN  /\ result' = merged
      /\ nResult' = nResult + 1
      /\ view' = Render(merged)
      /\ IssueGets(EffectGets(result # Null, TraceDep(result), TraceDep(merged)))

\* onResult = setResult: Home renders again, TicketResult (mounted while the held
\* result is truthy) renders the new result and then runs its effect.
onResult(r) ==
  /\ result' = r
  /\ nResult' = nResult + 1
  /\ view' = Render(r)
  /\ IssueGets(EffectGets(result # Null, TraceDep(result), TraceDep(r)))

-----------------------------------------------------------------------------
(* Initial state *)

\* No slide-deck builder runs.
NoScript ==
  /\ script = "none"
  /\ pc = "building"
  /\ pres = <<>>
  /\ writes = 0
  /\ console = <<>>

Init ==
  /\ input = <<>>
  /\ loading = FALSE
  /\ mode = "good"
  /\ posts = {}
  /\ nPost = 0
  /\ nResult = 0
  /\ result = Null
  /\ trace = Null
  /\ view = Null
  /\ gets = [t \in TraceIds |-> 0]
  /\ getCount = [t \in TraceIds |-> 0]
  /\ NoScript

-----------------------------------------------------------------------------
(* Events *)

formVars == <<input, loading, mode>>
netVars == <<posts, nPost>>
resultVars == <<nResult, result, view, gets, getCount>>

\* A plausible slip: selecting a mode resets the form, its loading flag included.
SetModeResettingLoading(m) ==
  /\ mode' = m
  /\ loading' = FALSE
  /\ UNCHANGED <<input, netVars, resultVars, trace>>
  /\ UNCHANGED deckVars

\* onClick={() => setMode(m)}
SetMode(m) ==
  /\ mode' = m
  /\ UNCHANGED <<input, loading, netVars, resultVars, trace>>
  /\ UNCHANGED deckVars

\* onClick={() => setInput(ex.input)}
PickExample(i) ==
  /\ input' = EXAMPLES[i].input
  /\ UNCHANGED <<loading, mode, netVars, resultVars, trace>>
  /\ UNCHANGED deckVars

\* A plausible slip: editing the text clears the result shown for the old text.
ChangeInputClearingResult(t) ==
  /\ input' = t
  /\ result' = Null
  /\ view' = Null
  /\ UNCHANGED <<loading, mode, netVars, nResult, gets, getCount, trace>>
  /\ UNCHANGED deckVars

\* onChange={(e) => setInput(e.target.value)}
ChangeInput(t) ==
  /\ input' = t
  /\ UNCHANGED <<loading, mode, netVars, resultVars, trace>>
  /\ UNCHANGED deckVars

\* A plausible slip: the request is issued without setLoading(true).
handleSubmitWithoutLoading ==
  IF InputBlank(input)
  THEN UNCHANGED <<loading, netVars>>
  ELSE /\ loading' = loading
       /\ posts' = posts \cup {[id |-> nPost + 1,
                                url |-> <<API_URL, Endpoint(mode)>>,
                                data |-> [user_input |-> input],
                                mode |-> mode]}
       /\ nPost' = nPost + 1

\* handleSubmit up to its await: the early return, setLoading(true), axios.post.
handleSubmit ==
  IF InputBlank(input)
  THEN UNCHANGED <<loading, netVars>>
  ELSE /\ loading' = TRUE
       /\ posts' = posts \cup {[id |-> nPost + 1,
                                url |-> <<API_URL, Endpoint(mode)>>,
                                data |-> [user_input |-> input],
                                mode |-> mode]}
       /\ nPost' = nPost + 1

\* A click on the submit button: a disabled button does not call its handler.
ClickSubmit ==
  /\ nPost < MaxSubmits
  /\ IF SubmitDisabled THEN UNCHANGED <<loading, netVars>> ELSE handleSubmit
  /\ UNCHANGED <<input, mode, resultVars, trace>>
  /\ UNCHANGED deckVars

\* A plausible slip: setLoading(false) at the end of the try block, not in finally.
PostRejectWithoutFinally(req, msg) ==
  /\ req \in posts
  /\ posts' = posts \ {req}
  /\ onResult(ErrorResult(msg, req.mode))
  /\ UNCHANGED <<input, loading, mode, nPost, trace>>
  /\ UNCHANGED deckVars

\* The awaited post resolves: onResult({ ...response.data, mode }), then finally.
PostResolve(req, data) ==
  /\ req \in posts
  /\ posts' = posts \ {req}
  /\ onResult(Spread(data, req.mode))
  /\ loading' = FALSE
  /\ UNCHANGED <<input, mode, nPost, trace>>
  /\ UNCHANGED deckVars

\* A plausible slip: an error result resets the trace detail of the result panel.
PostRejectClearingTrace(req, msg) ==
  /\ req \in posts
  /\ posts' = posts \ {req}
  /\ onResult(ErrorResult(msg, req.mode))
  /\ loading' = FALSE
  /\ trace' = Null
  /\ UNCHANGED <<input, mode, nPost>>
  /\ UNCHANGED deckVars

\* A plausible slip: the catch block only logs, and nothing reaches onResult.
PostRejectWithoutOnResult(req, msg) ==
  /\ req \in posts
  /\ posts' = posts \ {req}
  /\ loading' = FALSE
  /\ UNCHANGED <<input, mode, nPost, trace, resultVars>>
  /\ UNCHANGED deckVars

\* The awaited post rejects: onResult({ error: error.message, mode }), then finally.
PostReject(req, msg) ==
  /\ req \in posts
  /\ posts' = posts \ {req}
  /\ onResult(ErrorResult(msg, req.mode))
  /\ loading' = FALSE
  /\ UNCHANGED <<input, mode, nPost, trace>>
  /\ UNCHANGED deckVars

\* A plausible slip (or intention): the fetched trace detail is shown in the view.
GetResolveShowingTrace(tid) ==
  /\ gets[tid] > 0
  /\ gets' = [gets EXCEPT ![tid] = @ - 1]
  /\ trace' = TraceDetail(tid)
  /\ view' = LET v == Render(result)
             IN  [f \in DOMAIN v \cup {"traceDetail"} |->
                    IF f = "traceDetail" THEN TraceDetail(tid) ELSE v[f]]
  /\ UNCHANGED <<formVars, netVars, nResult, result, getCount>>
  /\ UNCHANGED deckVars

\* The repair the race calls for, which the code does not have: a response is
\* stored only while its id is still the held result's trace_id.
GetResolveIfCurrent(tid) ==
  /\ gets[tid] > 0
  /\ gets' = [gets EXCEPT ![tid] = @ - 1]
  /\ trace' = IF TraceDep(result) = Val(tid) THEN TraceDetail(tid) ELSE trace
  /\ view' = Render(result)
  /\ UNCHANGED <<formVars, netVars, nResult, result, getCount>>
  /\ UNCHANGED deckVars

\* .then(res => setTrace(res.data))
GetResolve(tid) ==
  /\ gets[tid] > 0
  /\ gets' = [gets EXCEPT ![tid] = @ - 1]
  /\ trace' = TraceDetail(tid)
  /\ view' = Render(result)
  /\ UNCHANGED <<formVars, netVars, nResult, result, getCount>>
  /\ UNCHANGED deckVars

\* A plausible slip: the catch handler fetches the trace again.
GetRejectRetrying(tid) ==
  /\ gets[tid] > 0
  /\ getCount' = [getCount EXCEPT ![tid] = @ + 1]
  /\ UNCHANGED <<formVars, netVars, nResult, result, view, gets, trace>>
  /\ UNCHANGED deckVars

\* .catch(err => console.error('Failed to fetch trace:', err))
GetReject(tid) ==
  /\ gets[tid] > 0
  /\ gets' = [gets EXCEPT ![tid] = @ - 1]
  /\ UNCHANGED <<formVars, netVars, nResult, result, view, getCount, trace>>
  /\ UNCHANGED deckVars

Next ==
  \/ \E m \in Modes : SetMode(m)
  \/ \E i \in 1..Len(EXAMPLES) : PickExample(i)
  \/ \E t \in Typed : ChangeInput(t)
  \/ ClickSubmit
  \/ \E req \in posts, data \in ServerBodies : PostResolve(req, data)
  \/ \E req \in posts, msg \in ErrorMessages : PostReject(req, msg)
  \/ \E tid \in TraceIds : GetResolve(tid)
  \/ \E tid \in TraceIds : GetReject(tid)

Spec == Init /\ [][Next]_vars

\* The awaited post settles, one way or the other.
PostSettles ==
  \E req \in posts :
    \/ \E msg \in ErrorMessages : PostReject(req, msg)
    \/ \E data \in ServerBodies : PostResolve(req, data)

\* The page with a backend that answers or fails every request it is sent.
SpecSettling == Spec /\ WF_vars(PostSettles)

-----------------------------------------------------------------------------
(* TicketResult on its own: mounted with any result the page can hold      *)

\* An object from a record of options: <<>> leaves the field out, <<v>> sets it.
Compact(o) == [f \in {g \in DOMAIN o : o[g] # <<>>} |-> o[f][1]]

Opt(S) == {<<>>} \cup {<<x>> : x \in S}

ErrStrings == {"category required", "urgency invalid"}

ListStrings == {"p1", "p2"}

UrgencyLevels == {"P0", "P1", "P2", "P3"}

\* Confidences in thousandths: every JSON number 0.000, 0.001, ..., 1.000.
Confidences == 0..1000

\* result objects, varying one aspect at a time
Tickets ==
  {[Ticket EXCEPT !.confidence = c] : c \in Confidences}
  \cup {Compact([category |-> <<cat>>, urgency |-> <<u>>, product |-> <<"SmartWatch X">>,
                 confidence |-> <<920>>, summary |-> <<"broken after two days">>,
                 suggested_action |-> a])
        : cat \in {"COMPLAINT", "INQUIRY"}, u \in UrgencyLevels,
          a \in Opt({"", "reply with the manual"})}

\* bad_approach / good_approach in every shape: {}, with result, with a list, with both
Approaches(listField) ==
  {Compact([f \in {"result", listField} |-> IF f = "result" THEN r ELSE l])
   : r \in Opt({Ticket}), l \in Opt(SeqsUpTo(ListStrings, MaxErrs))}

\* any mix of the dispatch-relevant fields, in any mode
DispatchInputs ==
  {Compact(o) : o \in
     [mode : {<<m>> : m \in Modes},
      success : Opt(BOOLEAN),
      result : Opt({Ticket, TicketWithAction}),
      status : Opt({"validation_failed"}),
      error : Opt({"missing field"}),
      trace_id : Opt({"", "A"}),
      validation_errors : Opt({<<"category required">>}),
      bad_approach : Opt({[result |-> Ticket, problems |-> <<"p1">>]})]}

CompareInputs ==
  {Compact([mode |-> <<"compare">>, bad_approach |-> b, good_approach |-> g])
   : b \in Opt(Approaches("problems")), g \in Opt(Approaches("benefits"))}

FailureInputs ==
  {Compact(o) : o \in
     [mode : {<<"good">>, <<"bad">>},
      success : Opt({FALSE}),
      status : Opt({"validation_failed"}),
      error : Opt({"missing field"}),
      validation_errors : Opt(SeqsUpTo(ErrStrings, MaxErrs))]}

SuccessInputs ==
  {[mode |-> m, success |-> TRUE, result |-> t, duration_ms |-> 850]
   : m \in {"good", "bad"}, t \in Tickets}

RenderInputs == DispatchInputs \cup CompareInputs \cup FailureInputs \cup SuccessInputs

\* Home holds a result that TicketResult has not rendered yet.
InitRender ==
  /\ input = <<>>
  /\ loading = FALSE
  /\ mode = "good"
  /\ posts = {}
  /\ nPost = 0
  /\ nResult = 0
  /\ result \in RenderInputs
  /\ trace = Null
  /\ view = Null
  /\ gets = [t \in TraceIds |-> 0]
  /\ getCount = [t \in TraceIds |-> 0]
  /\ NoScript

\* {result && <TicketResult result={result} />}: the first render and its effect.
Mount ==
  /\ result # Null
  /\ view = Null
  /\ view' = Render(result)
  /\ IssueGets(EffectGets(FALSE, Undefined, TraceDep(result)))
  /\ UNCHANGED <<formVars, netVars, nResult, result, trace>>
  /\ UNCHANGED deckVars

NextRender ==
  \/ Mount
  \/ \E tid \in TraceIds : GetResolve(tid)
  \/ \E tid \in TraceIds : GetReject(tid)

SpecRender == InitRender /\ [][NextRender]_vars

-----------------------------------------------------------------------------
(* The slide-deck builders: create_ppt_v2.js and the script of the README.  *)
(* Each is straight-line code: pres.addSlide(), then the addText / addShape *)
(* calls of that slide (loops over constant arrays included), slide after   *)
(* slide, then pres.writeFile(...).then(log).catch(error).                  *)

Scripts == {"create_ppt_v2", "create_ppt"}

\* Per slide of create_ppt_v2.js, the addText / addShape calls executed on it:
\* slide 2 is 2 + 4 * 4 (painPoints), slide 3 is 2 + 3 * 4 (features), slide 7 is
\* 2 + (4 * 2 + 3) + 4 (flowItems, an arrow after every item but the last),
\* slide 9 is 2 + 4 * 4 (pros), slide 10 is 2 + 3 * 3 (cons).
SlideElementsV2 == <<6, 18, 14, 7, 7, 12, 17, 5, 18, 11, 11, 7>>

\* The same for the script of the README.
SlideElementsReadme == <<5, 17, 10, 4, 4, 4, 15, 3, 13, 10, 8, 6>>

SlideElements == IF script = "create_ppt_v2" THEN SlideElementsV2 ELSE SlideElementsReadme

\* The slide being built has had all its elements added.
SlideComplete ==
  pres # <<>> /\ pres[Len(pres)].elements = SlideElements[Len(pres)]

pageVars == <<input, loading, mode, posts, nPost, nResult, result, trace, view,
              gets, getCount>>

\* A builder starts with an empty presentation.
InitDeck ==
  /\ input = <<>>
  /\ loading = FALSE
  /\ mode = "good"
  /\ posts = {}
  /\ nPost = 0
  /\ nResult = 0
  /\ result = Null
  /\ trace = Null
  /\ view = Null
  /\ gets = [t \in TraceIds |-> 0]
  /\ getCount = [t \in TraceIds |-> 0]
  /\ script \in Scripts
  /\ pc = "building"
  /\ pres = <<>>
  /\ writes = 0
  /\ console = <<>>

\* let slideN = pres.addSlide(), once the statements of the slide before are done
AddSlide ==
  /\ pc = "building"
  /\ pres = <<>> \/ SlideComplete
  /\ Len(pres) < Len(SlideElements)
  /\ pres' = Append(pres, [name |-> Len(pres) + 1, elements |-> 0])
  /\ UNCHANGED <<script, pc, writes, console, pageVars>>

\* slideN.addText(...) / slideN.addShape(...), directly or through a helper
AddElement ==
  /\ pc = "building"
  /\ pres # <<>>
  /\ ~SlideComplete
  /\ pres' = [pres EXCEPT ![Len(pres)].elements = @ + 1]
  /\ UNCHANGED <<script, pc, writes, console, pageVars>>

\* A plausible slip: the file is written as soon as the last slide exists.
WriteFileEarly ==
  /\ pc = "building"
  /\ Len(pres) = Len(SlideElements)
  /\ writes' = writes + 1
  /\ pc' = "writing"
  /\ UNCHANGED <<script, pres, console, pageVars>>

\* pres.writeFile({ fileName: outputPath }), the last statement of the script
WriteFile ==
  /\ pc = "building"
  /\ Len(pres) = Len(SlideElements)
  /\ SlideComplete
  /\ writes' = writes + 1
  /\ pc' = "writing"
  /\ UNCHANGED <<script, pres, console, pageVars>>

\* .then(() => console.log(...generated...))
WriteResolves ==
  /\ pc = "writing"
  /\ console' = Append(console, "generated")
  /\ pc' = "done"
  /\ UNCHANGED <<script, pres, writes, pageVars>>

\* A plausible slip: the catch handler logs and writes the file again.
WriteRejectsRetrying ==
  /\ pc = "writing"
  /\ console' = Append(console, "failed")
  /\ writes' = writes + 1
  /\ UNCHANGED <<script, pc, pres, pageVars>>

\* .catch(err => console.error(...failed..., err))
WriteRejects ==
  /\ pc = "writing"
  /\ console' = Append(console, "failed")
  /\ pc' = "done"
  /\ UNCHANGED <<script, pres, writes, pageVars>>

NextDeck ==
  \/ AddSlide
  \/ AddElement
  \/ WriteFile
  \/ WriteResolves
  \/ WriteRejects

SpecDeck == InitDeck /\ [][NextDeck]_vars

-----------------------------------------------------------------------------
(* Properties of the submission path *)

\* A text with no character other than whitespace (the empty text included).
AllWhitespace(s) == \A i \in 1..Len(s) : s[i] = " "

\* The documented endpoint of each mode.
DocumentedPath(m) ==
  CASE m = "good" -> "/api/ticket/analyze"
    [] m = "bad" -> "/api/ticket/analyze-bad"
    [] m = "compare" -> "/api/ticket/compare"

\* A click that the form accepts: there is text and nothing is in flight.
AcceptedClick == ClickSubmit /\ ~loading /\ ~AllWhitespace(input)

\* C1: a submission accepted while no request is in flight issues exactly one
\* POST, to the endpoint of the selected mode, with the current text as its only
\* payload field; no other step (a failed request's completion included) issues
\* a POST.
C1_OnePostPerSubmission ==
  [][ IF AcceptedClick
      THEN /\ nPost' = nPost + 1
           /\ \E req \in posts' \ posts :
                /\ posts' = posts \cup {req}
                /\ req.url = <<API_URL, DocumentedPath(mode)>>
                /\ DOMAIN req.data = {"user_input"}
                /\ req.data.user_input = input
      ELSE nPost' = nPost /\ posts' \subseteq posts ]_vars

\* A request failed and was delivered, and nothing was issued in its place.
C1_Witness ==
  /\ nPost = 1
  /\ posts = {}
  /\ result # Null
  /\ "error" \in DOMAIN result
  /\ result.mode = "compare"

\* C2: at most one analysis request is outstanding at any time, and loading is
\* true exactly while one is.
C2_AtMostOneInFlight ==
  /\ Cardinality(posts) <= 1
  /\ loading <=> posts # {}

\* A request is in flight while the form shows another mode and another
\* non-blank text: only the in-flight request keeps the button from submitting.
C2_Witness ==
  /\ loading
  /\ ~AllWhitespace(input)
  /\ \E req \in posts : req.mode # mode /\ req.data.user_input # input

\* C3: a click on submit with empty or whitespace-only input changes nothing: no
\* request, loading as it was (false when nothing is in flight), no onResult, the
\* held result unchanged; and no step at all issues a request from such input.
C3_BlankSubmitNoOp ==
  [][ AllWhitespace(input) =>
        /\ ClickSubmit => UNCHANGED vars
        /\ nPost' = nPost
        /\ posts' \subseteq posts
        /\ (~loading => ~loading') ]_vars

\* Whitespace-only input with a result held and nothing in flight.
C3_Witness ==
  /\ input # <<>>
  /\ AllWhitespace(input)
  /\ ~loading
  /\ result # Null
  /\ nPost < MaxSubmits

\* C4: when a request fails, onResult is called once with the object made of the
\* error message and the mode selected when the request was issued, and the
\* handler completes (loading is reset); the mode a request carries is the mode
\* selected at the click.
C4_ErrorThroughOnResult ==
  [][ /\ \A req \in posts, msg \in ErrorMessages :
           PostReject(req, msg) =>
             /\ result' = [error |-> msg, mode |-> req.mode]
             /\ nResult' = nResult + 1
             /\ ~loading'
             /\ view' # CrashView
      /\ AcceptedClick => \A req \in posts' \ posts : req.mode = mode ]_vars

\* An error result is held whose mode is not the mode selected now.
C4_Witness ==
  /\ result # Null
  /\ "error" \in DOMAIN result
  /\ result.error = "Network Error"
  /\ result.mode # mode
  /\ nResult = 1

\* A held result reports a failure: the synthetic error object of a failed
\* request, or a body with success false.
FailedResult(r) ==
  /\ r # Null
  /\ \/ "error" \in DOMAIN r
     \/ "success" \in DOMAIN r /\ r.success = FALSE

\* C6: every failed submission, in any mode, is rendered by the failure branch.
C6_FailuresRenderFailureBranch ==
  FailedResult(result) => view.branch = "failure"

\* C7 as stated: every trace id that has appeared is fetched exactly once.
C7_OneGetPerDistinctId ==
  \A tid \in TraceIds :
    (getCount[tid] > 0 \/ TraceDep(result) = Val(tid)) => getCount[tid] = 1

\* C7, amended: a step issues a GET exactly when it changes the held result's
\* trace_id to a non-empty value, and then exactly one, for that value.
C7_OneGetPerChange ==
  [][ LET old == TraceDep(result)
          new == TraceDep(result')
      IN  IF new # old /\ new.k = "value" /\ new.v # ""
          THEN /\ getCount' = [getCount EXCEPT ![new.v] = @ + 1]
               /\ gets' = [gets EXCEPT ![new.v] = @ + 1]
          ELSE /\ getCount' = getCount
               /\ \A tid \in TraceIds : gets'[tid] <= gets[tid] ]_vars

\* Trace id A came back after another result and was fetched a second time,
\* while a later result with the same id as its predecessor was not.
C7_Witness ==
  /\ getCount["A"] = 2
  /\ getCount["B"] = 0
  /\ nResult = 3
  /\ TraceDep(result) = Val("A")

-----------------------------------------------------------------------------
(* Properties of the renderer *)

Has(o, f) == f \in DOMAIN o

Rendered == result # Null /\ view # Null

\* C5: a non-null result is rendered by exactly one of the three branches: compare
\* when mode is 'compare', whatever else the result holds; otherwise success when
\* success is true and result is present; otherwise failure.
C5_BranchPrecedence ==
  Rendered =>
    /\ view.branch \in {"compare", "success", "failure"}
    /\ view.branch = "compare" <=> result.mode = "compare"
    /\ view.branch = "success" <=>
         /\ result.mode # "compare"
         /\ Has(result, "success") /\ result.success = TRUE
         /\ Has(result, "result")
    /\ view.branch = "failure" <=>
         /\ result.mode # "compare"
         /\ ~(Has(result, "success") /\ result.success = TRUE /\ Has(result, "result"))

\* The compare panel is shown for a result that also passes the success test and
\* carries an error.
C5_Witness ==
  /\ Rendered
  /\ view.branch = "compare"
  /\ Has(result, "success") /\ result.success = TRUE
  /\ Has(result, "result")
  /\ Has(result, "error")

\* What a compare panel must show of an approach that may be missing: the JSON of
\* its result if it has one, and its list, entry by entry, if it has one.
PanelShows(panel, r, approach, listField) ==
  LET present == Has(r, approach)
  IN  /\ panel.pre =
           IF present /\ Has(r[approach], "result")
           THEN Val([json |-> r[approach].result])
           ELSE Undefined
      /\ IF present /\ Has(r[approach], listField)
         THEN /\ panel.list.k = "value"
              /\ Len(panel.list.v) = Len(r[approach][listField])
              /\ \A i \in 1..Len(panel.list.v) :
                   panel.list.v[i].text = r[approach][listField][i]
         ELSE panel.list = Undefined

\* C8: a result with mode 'compare' renders both panels, whatever of bad_approach,
\* good_approach, their result and their lists is absent: the render does not
\* throw, and a missing list yields no list.
C8_CompareRendersBothPanels ==
  (Rendered /\ result.mode = "compare") =>
    /\ view.branch = "compare"
    /\ Has(view, "bad") /\ Has(view, "good")
    /\ PanelShows(view.bad, result, "bad_approach", "problems")
    /\ PanelShows(view.good, result, "good_approach", "benefits")

\* Both panels are rendered with bad_approach absent and good_approach lacking
\* its list.
C8_Witness ==
  /\ Rendered
  /\ view.branch = "compare"
  /\ ~Has(result, "bad_approach")
  /\ Has(result, "good_approach")
  /\ ~Has(result.good_approach, "benefits")
  /\ Has(view, "bad") /\ Has(view, "good")

\* C9: the failure panel lists every entry of validation_errors once and in the
\* order received; without validation_errors it renders no list; status and error
\* are shown either way.
C9_FailureListsEveryError ==
  (Rendered /\ view.branch = "failure") =>
    /\ IF Has(result, "validation_errors")
       THEN /\ view.errors.k = "value"
            /\ Len(view.errors.v) = Len(result.validation_errors)
            /\ \A i \in 1..Len(view.errors.v) :
                 view.errors.v[i].text = result.validation_errors[i]
       ELSE view.errors = Undefined
    /\ view.status = (IF Has(result, "status") THEN Val(result.status) ELSE Undefined)
    /\ view.error = (IF Has(result, "error") THEN Val(result.error) ELSE Undefined)

\* A failure panel lists two different validation errors.
C9_Witness ==
  /\ Rendered
  /\ view.branch = "failure"
  /\ Has(result, "validation_errors")
  /\ Len(result.validation_errors) = 2
  /\ result.validation_errors[1] # result.validation_errors[2]
  /\ view.errors.k = "value"
  /\ Len(view.errors.v) = 2

\* 100 * c for c = n / 1000, rounded to the nearest integer: a half rounded up,
\* and a half rounded to the even neighbour.
RoundHalfUp(n) == (n + 5) \div 10

RoundHalfEven(n) ==
  IF n % 10 = 5 /\ (n \div 10) % 2 = 0 THEN n \div 10 ELSE (n + 5) \div 10

\* C10: the success panel shows category, urgency, product and summary as
\* received, and the confidence c as round(100 * c) followed by '%' (under either
\* convention for a half).
C10_SuccessFieldsAndPercentage ==
  (Rendered /\ view.branch = "success") =>
    /\ \A f \in {"category", "urgency", "product", "summary"} :
         view[f] = (IF Has(result.result, f) THEN Val(result.result[f]) ELSE Undefined)
    /\ Has(result.result, "confidence") =>
         /\ view.confidence.k = "value"
         /\ view.confidence.v.suffix = "%"
         /\ view.confidence.v.digits \in
              {RoundHalfUp(result.result.confidence),
               RoundHalfEven(result.result.confidence)}


\* C11: the style shown for an urgency level is determined by the level, and it is
\* the style of no other of the four levels P0..P3.
C11_UrgencyStylesDistinct ==
  (Rendered /\ view.branch = "success" /\ Has(result.result, "urgency")
     /\ result.result.urgency \in UrgencyLevels) =>
    /\ view.urgencyClass.k = "value"
    /\ view.urgencyClass = UrgencyClass(Val(result.result.urgency))
    /\ \A other \in UrgencyLevels \ {result.result.urgency} :
         UrgencyClass(Val(other)) # view.urgencyClass

\* A P2 ticket is shown in the style of P2, which is not the default style.
C11_Witness ==
  /\ Rendered
  /\ view.branch = "success"
  /\ result.result.urgency = "P2"
  /\ view.urgencyClass = Val("text-yellow-600")

-----------------------------------------------------------------------------
(* Properties of the request life cycle *)

\* C12: loading becomes true in the step that issues the request and in no other,
\* and it returns to false only in a step that hands a result (response or error
\* object) to onResult and leaves no request outstanding; every such hand-over
\* resets it.
C12_LoadingSpansRequest ==
  [][ /\ AcceptedClick => loading'
      /\ (~loading /\ loading') => (nPost' = nPost + 1 /\ posts' # {})
      /\ (loading /\ ~loading') =>
           (nResult' = nResult + 1 /\ result' # Null /\ posts' = {})
      /\ nResult' # nResult => ~loading' ]_vars

\* Two requests were issued and completed, the second with an error, and loading
\* is false again.
C12_Witness ==
  /\ ~loading
  /\ nPost = 2
  /\ nResult = 2
  /\ posts = {}
  /\ Has(result, "error")


\* C13: a trace fetch in flight is not cancelled when another result arrives, and
\* once the held result no longer carries its trace_id, its response can still
\* arrive and is then stored as the trace detail under that other result.
C13_SupersededFetchStillStores ==
  /\ [](\A tid \in TraceIds :
          (gets[tid] > 0 /\ TraceDep(result) # Val(tid)) =>
            ENABLED (GetResolve(tid) /\ trace' = TraceDetail(tid) /\ result' = result))
  /\ [][ result' # result => \A tid \in TraceIds : gets'[tid] >= gets[tid] ]_vars

\* The result with trace_id B has replaced the one with trace_id A and B's detail
\* is stored, while the fetch for A is still in flight: its response, arriving
\* now, replaces B's detail under a result that carries B.
C13_Witness ==
  /\ TraceDep(result) = Val("B")
  /\ trace = TraceDetail("B")
  /\ gets["A"] = 1
  /\ ENABLED (GetResolve("A") /\ trace' = TraceDetail("A") /\ TraceDep(result') = Val("B"))


\* C14: while a request is in flight, a change of the mode or of the text neither
\* takes it out of flight nor issues another one; the result delivered for a
\* request carries the mode the request was issued with, so that its mode tag
\* names the endpoint the request was sent to.
C14_ResultCarriesIssueTimeMode ==
  [][ /\ (posts # {} /\ (mode' # mode \/ input' # input)) =>
           (posts' = posts /\ nPost' = nPost /\ nResult' = nResult /\ result' = result)
      /\ \A req \in posts :
           req \notin posts' =>
             /\ nResult' = nResult + 1
             /\ result'.mode = req.mode
             /\ req.url = <<API_URL, DocumentedPath(result'.mode)>> ]_vars

\* Mode and text were both changed while the request is in flight, and the
\* response, arriving now, is delivered with the mode of the request.
C14_Witness ==
  \E req \in posts :
    /\ req.mode # mode
    /\ req.data.user_input # input
    /\ ENABLED (/\ \E data \in ServerBodies : PostResolve(req, data)
                /\ result'.mode = req.mode
                /\ result'.mode # mode')

\* C15: a failed trace fetch changes nothing but the set of fetches in flight: the
\* stored trace detail, the held result and the rendered view stay as they are,
\* and no GET is issued; a GET is only ever issued by a step that delivers a
\* result.
C15_TraceFailureOnlyLogged ==
  [][ /\ \A tid \in TraceIds :
           (gets'[tid] < gets[tid] /\ trace' # TraceDetail(tid)) =>
             /\ gets' = [gets EXCEPT ![tid] = @ - 1]
             /\ UNCHANGED <<trace, result, view, getCount>>
      /\ \A tid \in TraceIds :
           getCount'[tid] # getCount[tid] => nResult' = nResult + 1 ]_vars

\* The only GET issued for trace_id A has failed: no detail is stored, the success
\* view of the result that carries A is still shown and nothing is in flight.
C15_Witness ==
  /\ TraceDep(result) = Val("A")
  /\ getCount = [t \in TraceIds |-> IF t = "A" THEN 1 ELSE 0]
  /\ gets["A"] = 0
  /\ trace = Null
  /\ view.branch = "success"

\* C16: every issued request that is no longer in flight has led to one call of
\* onResult, and every request in flight to none yet; a request leaves flight in
\* the step that calls onResult once, with the response data tagged with the mode
\* or with the error object.
C16_OneResultPerRequest ==
  /\ [](nResult + Cardinality(posts) = nPost)
  /\ [][ \A req \in posts :
           req \notin posts' =>
             /\ nResult' = nResult + 1
             /\ \/ \E data \in ServerBodies : result' = Spread(data, req.mode)
                \/ \E msg \in ErrorMessages : result' = ErrorResult(msg, req.mode) ]_vars

\* Three requests were issued; two have completed, the last of them with response
\* data, and the third is in flight.
C16_Witness ==
  /\ nPost = 3
  /\ nResult = 2
  /\ Cardinality(posts) = 1
  /\ ~Has(result, "error")


\* C17: when every issued request settles, loading, set by an accepted submission,
\* is eventually false again with nothing in flight, and the submit button is
\* then blocked by nothing but blank text.
C17_LoadingEventuallyCleared ==
  /\ loading ~> (~loading /\ posts = {})
  /\ [](~loading => (SubmitDisabled <=> AllWhitespace(input)))

\* The first request has settled and the button accepts the next submission.
C17_Witness ==
  /\ nPost = 1
  /\ nResult = 1
  /\ ~loading
  /\ ENABLED (ClickSubmit /\ nPost' = 2 /\ loading')


\* C18: nothing but the settlement of the request ends the loading state: while a
\* request is in flight loading is true and the button is disabled, and every step
\* that leaves the request in flight leaves loading true, delivers no result and
\* issues no request.
C18_NoTimeout ==
  /\ [](posts # {} => (loading /\ SubmitDisabled))
  /\ [][ (posts # {} /\ posts \subseteq posts') =>
           /\ loading'
           /\ posts' = posts
           /\ nPost' = nPost
           /\ nResult' = nResult
           /\ result' = result ]_vars

\* The first request is still in flight after the mode and the text were changed:
\* loading is true, no result is held and a click issues nothing.
C18_Witness ==
  /\ loading
  /\ nPost = 1
  /\ nResult = 0
  /\ result = Null
  /\ \E req \in posts : req.mode # mode /\ req.data.user_input # input
  /\ ~AllWhitespace(input)
  /\ ~ENABLED (ClickSubmit /\ nPost' # nPost)

\* C19: the mode of a delivered result is the mode of its request, whatever mode
\* field the response body carries, and the branch rendered for it is the compare
\* branch exactly when that mode is 'compare'.
C19_ClientModeWins ==
  [][ \A req \in posts :
        req \notin posts' =>
          /\ Prop(Val(result'), "mode") = Val(req.mode)
          /\ \A data \in ServerBodies :
               (Has(data, "mode") /\ Rest(result') = Rest(data)) => result'.mode = req.mode
          /\ view'.branch = "compare" <=> req.mode = "compare" ]_vars

\* The held result was built from a response body that carries a mode field of its
\* own; it is tagged 'compare', the mode of the request, and rendered by the
\* compare branch.
C19_Witness ==
  /\ Rendered
  /\ \E data \in ServerBodies :
       Has(data, "mode") /\ data.mode # "compare" /\ Rest(result) = Rest(data)
  /\ result.mode = "compare"
  /\ view.branch = "compare"

\* C20: the one result the page holds is replaced as a whole: after a delivery the
\* held result is exactly the delivered object (the response data tagged with the
\* mode, or the error object), so that no field of the previous result survives,
\* and the view is rendered from it alone.
C20_ResultReplacedWholesale ==
  [][ nResult' # nResult =>
        /\ \E req \in posts :
             result' \in {Spread(data, req.mode) : data \in ServerBodies}
                         \cup {ErrorResult(msg, req.mode) : msg \in ErrorMessages}
        /\ view' = Render(result') ]_vars

\* An error result has replaced a result that carried trace_id A: it holds neither a
\* trace_id nor validation errors.
C20_Witness ==
  /\ nResult = 2
  /\ getCount = [t \in TraceIds |-> IF t = "A" THEN 1 ELSE 0]
  /\ Has(result, "error")
  /\ ~Has(result, "trace_id")
  /\ ~Has(result, "validation_errors")

\* C23: the success panel shows the trace link exactly when trace_id is present
\* and not empty, and the suggested-action block exactly when suggested_action is;
\* what they show is the trace_id (with its Langfuse address) and the action as
\* received. The compare and failure panels show neither.
C23_LinkAndActionWhenNonEmpty ==
  Rendered =>
    IF view.branch = "success"
    THEN /\ view.traceLink =
              IF Has(result, "trace_id") /\ result.trace_id # ""
              THEN Val([text |-> result.trace_id,
                        href |-> <<"https://cloud.langfuse.com/trace/", result.trace_id>>])
              ELSE Undefined
         /\ view.action =
              IF Has(result.result, "suggested_action") /\ result.result.suggested_action # ""
              THEN Val(result.result.suggested_action)
              ELSE Undefined
    ELSE ~Has(view, "traceLink") /\ ~Has(view, "action")

\* A success panel for a result whose trace_id is the empty string: no link is
\* shown, while the suggested action, which is not empty, is.
C23_Witness ==
  /\ Rendered
  /\ view.branch = "success"
  /\ Has(result, "trace_id") /\ result.trace_id = ""
  /\ view.traceLink = Undefined
  /\ Has(result.result, "suggested_action")
  /\ view.action.k = "value"

-----------------------------------------------------------------------------
(* Properties of the page as a whole *)

C22_GetInEveryBranch ==
  [][ \A tid \in TraceIds :
        (TraceDep(result') = Val(tid) /\ TraceDep(result) # Val(tid)) =>
          /\ view'.branch \in {"compare", "success", "failure"}
          /\ getCount'[tid] = getCount[tid] + 1
          /\ gets'[tid] = gets[tid] + 1 ]_vars

\* The first result, which carries trace_id B, is rendered by the compare branch
\* (that shows no trace link) and the GET for B is in flight.
C22_Witness ==
  /\ nResult = 1
  /\ view.branch = "compare"
  /\ TraceDep(result) = Val("B")
  /\ getCount["B"] = 1
  /\ gets["B"] = 1

\* A trace fetch is in flight.
Fetching == \E tid \in TraceIds : gets[tid] > 0

\* C24: while a trace fetch is in flight a submission is accepted as without one
\* and a request in flight can deliver its result; while a request is in flight
\* every trace fetch in flight can have its response stored; issuing a request or
\* delivering its result takes no trace fetch out of flight and leaves the stored
\* detail alone, and a trace response leaves the request in flight and the
\* loading flag alone.
C24_AsyncOperationsIndependent ==
  /\ [](Fetching =>
          /\ (~loading /\ ~AllWhitespace(input) /\ nPost < MaxSubmits) =>
               ENABLED (ClickSubmit /\ nPost' = nPost + 1)
          /\ \A req \in posts :
               ENABLED (/\ \E msg \in ErrorMessages : PostReject(req, msg)
                        /\ nResult' = nResult + 1))
  /\ [](posts # {} =>
          \A tid \in TraceIds :
            gets[tid] > 0 => ENABLED (GetResolve(tid) /\ trace' = TraceDetail(tid)))
  /\ [][ /\ (nPost' # nPost \/ nResult' # nResult) =>
              (trace' = trace /\ \A tid \in TraceIds : gets'[tid] >= gets[tid])
         /\ (\E tid \in TraceIds : gets'[tid] < gets[tid]) =>
              UNCHANGED <<loading, posts, nPost, nResult, result>> ]_vars

\* The second request and the fetch of the first result's trace are in flight
\* together.
C24_Witness ==
  /\ nPost = 2
  /\ nResult = 1
  /\ posts # {}
  /\ gets["A"] = 1
  /\ trace = Null

\* C25: the stored trace detail changes only when a trace response is stored, and
\* then to the detail of that response: no other step clears or replaces it, a new
\* result included; and while the held result has no trace_id, the response of a
\* fetch still in flight can be stored.
C25_TraceDetailNeverCleared ==
  /\ [][ trace' # trace =>
           /\ UNCHANGED <<result, nResult>>
           /\ \E tid \in TraceIds :
                /\ trace' = TraceDetail(tid)
                /\ gets' = [gets EXCEPT ![tid] = @ - 1] ]_vars
  /\ [](\A tid \in TraceIds :
          (result # Null /\ ~Has(result, "trace_id") /\ gets[tid] > 0) =>
            ENABLED (GetResolve(tid) /\ trace' = TraceDetail(tid) /\ result' = result))

\* A transport error has replaced the results that carried trace ids: the detail
\* stored for A is still there, and the response for B, still in flight, would be
\* stored under the error result.
C25_Witness ==
  /\ Has(result, "error")
  /\ ~Has(result, "trace_id")
  /\ trace = TraceDetail("A")
  /\ gets["B"] = 1
  /\ ENABLED (GetResolve("B") /\ trace' = TraceDetail("B") /\ result' = result)

\* C26: a step that changes the selected mode or the text changes nothing else; a
\* POST is issued only by an accepted click, one per click; a GET is issued only
\* by a step that changes the held result's trace_id, for the new trace_id.
C26_EditsChangeNothingElse ==
  [][ /\ (mode' # mode \/ input' # input) =>
           UNCHANGED <<loading, posts, nPost, nResult, result, view, trace, gets, getCount>>
      /\ nPost' # nPost => (AcceptedClick /\ nPost' = nPost + 1)
      /\ \A tid \in TraceIds :
           getCount'[tid] # getCount[tid] =>
             /\ getCount'[tid] = getCount[tid] + 1
             /\ TraceDep(result') = Val(tid)
             /\ TraceDep(result) # Val(tid) ]_vars

\* With a result shown, its trace detail stored and the next request in flight,
\* the mode and the text have been changed again.
C26_Witness ==
  /\ Rendered
  /\ trace # Null
  /\ loading
  /\ nPost = 2
  /\ nResult = 1
  /\ \E req \in posts : req.mode # mode /\ req.data.user_input # input
  /\ mode # result.mode

-----------------------------------------------------------------------------
(* Properties of the slide-deck builders *)

\* C27: a builder adds its slides in the order slide1, slide2, ..., never touches
\* a slide once the next one is added, and calls writeFile once, with all 12
\* slides added and complete; a run that is over has logged exactly one outcome,
\* generated or failed, and does nothing more; a run that is not over can go on
\* and has logged nothing.
C27_TwelveSlidesThenOneWrite ==
  /\ [](/\ Len(pres) <= 12
        /\ \A i \in 1..Len(pres) : pres[i].name = i
        /\ writes <= 1
        /\ pc = "building" => (writes = 0 /\ console = <<>>)
        /\ pc # "building" =>
             /\ writes = 1
             /\ Len(pres) = 12
             /\ \A i \in 1..12 : pres[i].elements = SlideElements[i]
        /\ pc = "writing" => console = <<>>
        /\ pc = "done" => console \in {<<"generated">>, <<"failed">>}
        /\ pc # "done" => ENABLED NextDeck)
  /\ [][ /\ \A i \in 1..(Len(pres) - 1) : pres'[i] = pres[i]
         /\ Len(pres') >= Len(pres)
         /\ pc = "done" => UNCHANGED deckVars ]_vars

\* The builder of the README has added its 12 slides, written once, and the write
\* has failed: the failure is logged and the run is over.
C27_Witness ==
  /\ script = "create_ppt"
  /\ pc = "done"
  /\ Len(pres) = 12
  /\ pres[12].elements = 6
  /\ writes = 1
  /\ console = <<"failed">>

=============================================================================
